---- MODULE Spec2Model ----
(***************************************************************************)
(* A model of CHDManUI.py: the chdman front-end.  Text (paths, system      *)
(* names, the child's output) is a sequence of one-character strings.      *)
(* A float is an integer scaled by Scale (100.0 is 100 * Scale).           *)
(***************************************************************************)
EXTENDS Integers, Sequences, FiniteSets, TLC

\* the extractor alone, on one stream
VARIABLES stream, fed, buffer, reported, cuts, split, eof

\* the application: the module globals, the widgets' values, the callbacks
\* root.after has queued, the worker threads, and what has been observed
VARIABLES CHDMAN_PATH, system_var, status_var, progress_bar, percent_var,
          output_tail_var, afterQ, thr, uiWrites, popens, children, logWritten,
          warnings

xvars == <<stream, fed, buffer, reported, cuts, split, eof>>

avars == <<CHDMAN_PATH, system_var, status_var, progress_bar, percent_var,
           output_tail_var, afterQ, thr, uiWrites, popens, children, logWritten,
           warnings>>

vars == <<xvars, avars>>

\* ------------------------------------------------------------------ bounds
BodyLen == 4
PrePad == 112
PostPad == 16
FracDigits == 4
MaxOps == 2
MaxReads == 2
MaxQueue == 4

\* -------------------------------------------------------- program constants
ReadSize == 64
BufLimit == 128
KeepTail == 16
TailLen == 80

\* ------------------------------------------------------------ text helpers
Digits == {"0", "1", "2", "3", "4", "5", "6", "7", "8", "9"}

Spaces == {" ", "\t", "\n", "\r", "\f"}

DigitVal(c) ==
  CASE c = "0" -> 0 [] c = "1" -> 1 [] c = "2" -> 2 [] c = "3" -> 3
    [] c = "4" -> 4 [] c = "5" -> 5 [] c = "6" -> 6 [] c = "7" -> 7
    [] c = "8" -> 8 [] c = "9" -> 9

Pow10(n) == IF n <= 0 THEN 1 ELSE
  LET p[i \in 0..n] == IF i = 0 THEN 1 ELSE 10 * p[i - 1] IN p[n]

Scale == Pow10(FracDigits)

\* s[-n:]
LastN(s, n) == IF Len(s) <= n THEN s ELSE SubSeq(s, Len(s) - n + 1, Len(s))

\* s.replace(a, b) for one-character a, b
Replace(s, a, b) == [i \in 1..Len(s) |-> IF s[i] = a THEN b ELSE s[i]]

Fill(n) == [i \in 1..n |-> "x"]

\* the number of consecutive characters of set S in s from position p on
RunLen(s, p, S) ==
  IF p > Len(s) THEN 0
  ELSE CHOOSE k \in 0..(Len(s) - p + 1) :
         /\ \A i \in p..(p + k - 1) : s[i] \in S
         /\ (p + k > Len(s) \/ s[p + k] \notin S)

\* --------------------------------------- r"(\d{1,3}(?:\.\d+)?)\s*%"
\* Every way the pattern can match at p: <<k, g, w>> is k digits, a group of
\* g characters ("." and g-1 digits, or g = 0 for no group), w blanks, "%".
MatchCands(s, p) ==
  LET dr == RunLen(s, p, Digits) IN
  { c \in UNION { UNION { { <<k, g, w>> : w \in 0..RunLen(s, p + k + g, Spaces) }
                          : g \in {0} \cup
                                  (IF p + k <= Len(s) /\ s[p + k] = "."
                                   THEN { 1 + m : m \in 1..RunLen(s, p + k + 1, Digits) }
                                   ELSE {}) }
                  : k \in 1..(IF dr < 3 THEN dr ELSE 3) } :
      /\ p + c[1] + c[2] + c[3] <= Len(s)
      /\ s[p + c[1] + c[2] + c[3]] = "%" }

\* The greedy quantifiers try the longer alternative first.
Prefer(c, d) ==
  \/ c[1] > d[1]
  \/ c[1] = d[1] /\ c[2] > d[2]
  \/ c[1] = d[1] /\ c[2] = d[2] /\ c[3] >= d[3]

\* float(m.group(1)): the digits before and after the point
ToFloat(s, p, k, g) ==
  LET ip[i \in 0..k] == IF i = 0 THEN 0 ELSE 10 * ip[i - 1] + DigitVal(s[p + i - 1])
      nf == IF g = 0 THEN 0 ELSE g - 1
      used == IF nf < FracDigits THEN nf ELSE FracDigits
      fp[i \in 0..used] == IF i = 0 THEN 0 ELSE 10 * fp[i - 1] + DigitVal(s[p + k + i])
  IN ip[k] * Scale + fp[used] * Pow10(FracDigits - used)

NoMatch == [ok |-> FALSE, start |-> 0, end |-> 0, val |-> 0]

\* re.match of the pattern at position p: the match's last index and its value
MatchAt(s, p) ==
  IF p > Len(s) \/ s[p] \notin Digits THEN NoMatch
  ELSE LET cs == MatchCands(s, p) IN
       IF cs = {} THEN NoMatch
       ELSE LET c == CHOOSE x \in cs : \A y \in cs : Prefer(x, y) IN
            [ok |-> TRUE, start |-> p, end |-> p + c[1] + c[2] + c[3],
             val |-> ToFloat(s, p, c[1], c[2])]

RECURSIVE FindIterFrom(_, _)
\* re.finditer: the leftmost match from pos on, then on from its end
FindIterFrom(s, pos) ==
  LET starts == { p \in pos..Len(s) : MatchAt(s, p).ok } IN
  IF starts = {} THEN <<>>
  ELSE LET p == CHOOSE x \in starts : \A y \in starts : x <= y
           m == MatchAt(s, p)
       IN <<m>> \o FindIterFrom(s, m.end + 1)

FindIter(s) == FindIterFrom(s, 1)

\* if 0.0 <= pct <= 100.0
InRange(pct) == 0 <= pct /\ pct <= 100 * Scale

\* ------------------------------------------- run_chdman: one pass of the loop
\* the values handed to progress_cb for the buffer, in order
Callbacks(b) ==
  LET ms == FindIter(b)
      keep == SelectSeq(ms, LAMBDA m : InRange(m.val))
  IN [i \in 1..Len(keep) |-> keep[i].val]

\* tail = buffer[-80:].replace("\r", " ").replace("\n", " ")
TailOf(b) == Replace(Replace(LastN(b, TailLen), "\r", " "), "\n", " ")

\* the buffer replaced by the chunk instead of extended by it
AppendDropsBuffer(b, chunk) == chunk

\* buffer += chunk
Append2(b, chunk) == b \o chunk

\* if len(buffer) > 128: buffer = buffer[-16:]
Truncate(b) == IF Len(b) > BufLimit THEN LastN(b, KeepTail) ELSE b

\* how many characters Truncate drops
Dropped(b) == Len(b) - Len(Truncate(b))

\* ---------------------------------------------------------- the static tables
SYSTEMS ==
  << <<"S", "o", "n", "y", " ", "P", "l", "a", "y", "S", "t", "a", "t", "i", "o", "n", " ", "(", "P", "S", "1", ")">>,
     <<"S", "o", "n", "y", " ", "P", "l", "a", "y", "S", "t", "a", "t", "i", "o", "n", " ", "2", " ", "(", "P", "S", "2", ")">>,
     <<"S", "e", "g", "a", " ", "S", "a", "t", "u", "r", "n">>,
     <<"S", "e", "g", "a", " ", "D", "r", "e", "a", "m", "c", "a", "s", "t">>,
     <<"S", "e", "g", "a", " ", "/", " ", "M", "e", "g", "a", " ", "C", "D">>,
     <<"S", "N", "K", " ", "N", "e", "o", " ", "G", "e", "o", " ", "C", "D">>,
     <<"N", "E", "C", " ", "T", "u", "r", "b", "o", "G", "r", "a", "f", "x", " ", "C", "D", " ", "/", " ", "P", "C", " ", "E", "n", "g", "i", "n", "e", " ", "C", "D">>,
     <<"3", "D", "O">>,
     <<"C", "o", "m", "m", "o", "d", "o", "r", "e", " ", "A", "m", "i", "g", "a", " ", "C", "D", "3", "2">> >>

EXT_CUE == <<".", "c", "u", "e">>

EXT_ISO == <<".", "i", "s", "o">>

EXT_GDI == <<".", "g", "d", "i">>

EXT_CDI == <<".", "c", "d", "i">>

EXT_CHD == <<".", "c", "h", "d">>

\* SYSTEM_FILETYPES, as <<key, extensions>> pairs
SYSTEM_FILETYPES ==
  { <<<<"S", "o", "n", "y", " ", "P", "l", "a", "y", "S", "t", "a", "t", "i", "o", "n", " ", "(", "P", "S", "1", ")">>,
       <<EXT_CUE, EXT_ISO>> >>,
    <<<<"S", "o", "n", "y", " ", "P", "l", "a", "y", "S", "t", "a", "t", "i", "o", "n", " ", "2", " ", "(", "P", "S", "2", ")">>,
       <<EXT_CUE, EXT_ISO>> >>,
    <<<<"S", "e", "g", "a", " ", "S", "a", "t", "u", "r", "n">>,
       <<EXT_CUE, EXT_ISO>> >>,
    <<<<"S", "e", "g", "a", " ", "D", "r", "e", "a", "m", "c", "a", "s", "t">>,
       <<EXT_GDI, EXT_CUE, EXT_CDI, EXT_ISO>> >>,
    <<<<"S", "e", "g", "a", " ", "/", " ", "M", "e", "g", "a", " ", "C", "D">>,
       <<EXT_CUE, EXT_ISO>> >>,
    <<<<"N", "e", "o", " ", "G", "e", "o", " ", "C", "D">>,
       <<EXT_CUE, EXT_ISO>> >>,
    <<<<"T", "u", "r", "b", "o", "G", "r", "a", "f", "x", " ", "/", " ", "P", "C", " ", "E", "n", "g", "i", "n", "e", " ", "C", "D">>,
       <<EXT_CUE, EXT_ISO>> >>,
    <<<<"3", "D", "O">>,
       <<EXT_CUE, EXT_ISO>> >>,
    <<<<"C", "o", "m", "m", "o", "d", "o", "r", "e", " ", "A", "m", "i", "g", "a", " ", "C", "D", "3", "2">>,
       <<EXT_CUE, EXT_ISO>> >> }

\* ------------------------------------------------------------- str and os.path
UpperCase ==
  <<"A", "B", "C", "D", "E", "F", "G", "H", "I", "J", "K", "L", "M",
    "N", "O", "P", "Q", "R", "S", "T", "U", "V", "W", "X", "Y", "Z">>

LowerCase ==
  <<"a", "b", "c", "d", "e", "f", "g", "h", "i", "j", "k", "l", "m",
    "n", "o", "p", "q", "r", "s", "t", "u", "v", "w", "x", "y", "z">>

\* s.lower()
Lower(s) ==
  [i \in 1..Len(s) |->
     IF \E j \in 1..26 : UpperCase[j] = s[i]
     THEN LowerCase[CHOOSE j \in 1..26 : UpperCase[j] = s[i]]
     ELSE s[i]]

\* s.endswith(suffix)
EndsWith(s, suffix) ==
  /\ Len(suffix) <= Len(s)
  /\ SubSeq(s, Len(s) - Len(suffix) + 1, Len(s)) = suffix

\* sub in s
Contains(s, sub) ==
  \E i \in 1..(Len(s) - Len(sub) + 1) : SubSeq(s, i, i + Len(sub) - 1) = sub

\* the index of the last "/" of a path, 0 when it has none
LastSep(path) ==
  IF \E i \in 1..Len(path) : path[i] = "/"
  THEN CHOOSE i \in 1..Len(path) :
         path[i] = "/" /\ \A j \in (i + 1)..Len(path) : path[j] # "/"
  ELSE 0

\* os.path.basename(path)
Basename(path) == SubSeq(path, LastSep(path) + 1, Len(path))

\* os.path.splitext(path)[0]: cut at the last dot of the file name, unless the
\* name has no dot or only leading ones
SplitextRoot(path) ==
  LET sep == LastSep(path)
      dots == { i \in (sep + 1)..Len(path) :
                  path[i] = "." /\ \E j \in (sep + 1)..(i - 1) : path[j] # "." }
  IN IF dots = {} THEN path
     ELSE SubSeq(path, 1, (CHOOSE i \in dots : \A j \in dots : j <= i) - 1)

\* os.path.join(folder, name)
Join(folder, name) == folder \o <<"/">> \o name

\* ------------------------------------------------------ the program's functions
\* build_filetypes(system)[1]
build_filetypes(system) ==
  IF \E e \in SYSTEM_FILETYPES : e[1] = system
  THEN (CHOOSE e \in SYSTEM_FILETYPES : e[1] = system)[2]
  ELSE <<EXT_CUE, EXT_GDI, EXT_ISO>>

PlayStation2 == <<"P", "l", "a", "y", "S", "t", "a", "t", "i", "o", "n", " ", "2">>

\* the extension compared without lower()
choose_subcommand_case_sensitive(system, input_path) ==
  IF Contains(system, PlayStation2) /\ EndsWith(input_path, EXT_ISO)
  THEN "createdvd"
  ELSE "createcd"

choose_subcommand(system, input_path) ==
  IF Contains(system, PlayStation2) /\ EndsWith(Lower(input_path), EXT_ISO)
  THEN "createdvd"
  ELSE "createcd"

\* max(0.0, min(100.0, float(pct)))
Clamp(pct) == IF pct < 0 THEN 0 ELSE IF pct > 100 * Scale THEN 100 * Scale ELSE pct

\* round(x / unit) to an integer, a tie going to the even one
RoundHalfEven(x, unit) ==
  LET q == x \div unit
      r == x % unit
  IN IF 2 * r < unit THEN q
     ELSE IF 2 * r > unit THEN q + 1
     ELSE IF q % 2 = 0 THEN q ELSE q + 1

DigitChar(d) ==
  CASE d = 0 -> "0" [] d = 1 -> "1" [] d = 2 -> "2" [] d = 3 -> "3" [] d = 4 -> "4"
    [] d = 5 -> "5" [] d = 6 -> "6" [] d = 7 -> "7" [] d = 8 -> "8" [] d = 9 -> "9"

\* str(n) for 0 <= n <= 999
IntStr(n) ==
  IF n < 10 THEN <<DigitChar(n)>>
  ELSE IF n < 100 THEN <<DigitChar(n \div 10), DigitChar(n % 10)>>
  ELSE <<DigitChar(n \div 100), DigitChar((n \div 10) % 10), DigitChar(n % 10)>>

\* f"{clamped:.1f}%"
FormatPercent(clamped) ==
  LET tenths == RoundHalfEven(clamped, Scale \div 10)
  IN IntStr(tenths \div 10) \o <<".", DigitChar(tenths % 10), "%">>

\* int(round(clamped))
BarValue(clamped) == RoundHalfEven(clamped, Scale)

\* ------------------------------------------------------------ the application
\* the threads the run has room for
Workers == DOMAIN thr

\* With room for several operations at once, the inputs are kept to one file
\* and one read each.
Lean == Cardinality(DOMAIN thr) > 1

IDLE == <<"I", "d", "l", "e">>

\* f"[{idx}/{total}] Converting: {os.path.basename(f)}"
ConvertingMsg(idx, total, f) ==
  <<"[">> \o IntStr(idx) \o <<"/">> \o IntStr(total)
    \o <<"]", " ", "C", "o", "n", "v", "e", "r", "t", "i", "n", "g", ":", " ">> \o Basename(f)

\* what is on the disk: two folders and a loose file
DirD == <<"d">>

DirE == <<"e">>

FileB == <<"b", ".", "I", "S", "O">>

Listing(folder) ==
  IF folder = DirD THEN << <<"a", ".", "i", "s", "o">>, <<"c", ".", "c", "u", "e">>, <<"e", ".", "c", "h", "d">> >>
  ELSE IF folder = DirE THEN << <<"r", ".", "t", "x", "t">> >>
  ELSE <<>>

IsDir(path) == path \in {DirD, DirE}

IsFile(path) ==
  \/ path = FileB
  \/ \E d \in {DirD, DirE} : \E i \in 1..Len(Listing(d)) : path = Join(d, Listing(d)[i])

\* glob.glob(os.path.join(folder, f"*{e}")): the names of the folder that end
\* with e, hidden ones left out
Glob(folder, e) ==
  LET hits == SelectSeq(Listing(folder), LAMBDA n : EndsWith(n, e) /\ n[1] # ".")
  IN [i \in 1..Len(hits) |-> Join(folder, hits[i])]

RECURSIVE Concat(_)
Concat(ss) == IF ss = <<>> THEN <<>> ELSE Head(ss) \o Concat(Tail(ss))

\* the system names the user picks among, the output the child prints in one
\* read, and what the user drops on the window
SystemChoices == {SYSTEMS[2], SYSTEMS[6]}

Chunks == { <<"5">>, <<"0", "%">> }

CueChoices == IF Lean THEN {<<>>} ELSE {<<>>, FileB, Join(DirD, Listing(DirD)[3])}

\* select_single line 184: default_out = os.path.splitext(cue_file)[0] + ".chd",
\* what the save dialog proposes
DefaultOut(cue_file) == SplitextRoot(cue_file) \o EXT_CHD

\* the save dialog's answers: cancelled, the proposed file, or the file the
\* user picked as the source
SaveChoices(cue) == IF Lean THEN {<<>>} ELSE {<<>>, cue, DefaultOut(cue)}

FolderChoices == IF Lean THEN {<<>>} ELSE {<<>>, DirD, DirE}

DropChoices ==
  IF Lean THEN { <<FileB>> }
  ELSE { <<FileB>>, <<Join(DirE, Listing(DirE)[1])>>, <<DirD, FileB>> }

LaunchChoices == IF Lean THEN {TRUE} ELSE BOOLEAN

ChunkChoices == IF Lean THEN { <<"0", "%">> } ELSE Chunks

ReadLimit == IF Lean THEN 1 ELSE MaxReads

NoProc == [input |-> <<>>, output |-> <<>>, subcommand |-> "", system |-> <<>>]

NoSummary == [shown |-> 0, converted |-> 0, failed |-> 0]

Fresh ==
  [pc |-> "idle", kind |-> "", system |-> <<>>, files |-> <<>>, save_file |-> <<>>,
   idx |-> 0, success |-> 0, fail |-> 0, ok |-> FALSE, job |-> NoProc,
   proc |-> "none", rc |-> 0, logf |-> FALSE, buf |-> <<>>, reads |-> 0,
   lastCb |-> -1, forced |-> FALSE, attempted |-> <<>>, outcomes |-> <<>>,
   summary |-> NoSummary]

Init ==
  /\ CHDMAN_PATH \in {"chdman", ""}
  /\ system_var \in SystemChoices
  /\ status_var = IDLE
  /\ progress_bar = 0
  /\ percent_var = <<>>
  /\ output_tail_var = <<>>
  /\ afterQ = <<>>
  /\ thr = [w \in 1..1 |-> Fresh]
  /\ uiWrites = {}
  /\ popens = 0
  /\ children = {}
  /\ logWritten = FALSE
  /\ warnings = FALSE
  /\ stream = <<>> /\ fed = 0 /\ buffer = <<>> /\ reported = {}
  /\ cuts = {} /\ split = FALSE /\ eof = FALSE

\* update_status(message): root.after(0, lambda: status_var.set(message))
update_status(q, message) == Append(q, [kind |-> "status", text |-> message, pct |-> 0])

\* set_progress(pct): root.after(0, apply) with the clamped value
set_progress(q, pct) == Append(q, [kind |-> "apply", text |-> <<>>, pct |-> Clamp(pct)])

\* root.after(0, lambda t=tail: output_tail_var.set(t))
show_tail(q, tail) == Append(q, [kind |-> "tail", text |-> tail, pct |-> 0])

RECURSIVE set_progress_all(_, _)
\* progress_cb(pct) for each value of a scan, in order
set_progress_all(q, pcts) ==
  IF pcts = <<>> THEN q ELSE set_progress_all(set_progress(q, Head(pcts)), Tail(pcts))

\* threading.Thread(target=..., daemon=True).start() on a free thread
StartThread(w, kind, files, system, save_file) ==
  /\ thr[w].pc = "idle"
  /\ \A v \in Workers : v < w => thr[v].pc # "idle"
  /\ thr' = [thr EXCEPT ![w] =
       [Fresh EXCEPT !.pc = "start", !.kind = kind, !.files = files,
                     !.system = system, !.save_file = save_file, !.idx = 1]]

\* select_single(): the two dialogs answered cue_file and save_file, <<>> for a
\* cancelled one
select_single(w, cue_file, save_file) ==
  /\ thr[w].pc = "idle"
  /\ \A v \in Workers : v < w => thr[v].pc # "idle"
  /\ IF cue_file = <<>> \/ save_file = <<>>
     THEN UNCHANGED thr
     ELSE StartThread(w, "single", <<cue_file>>, system_var, save_file)
  /\ UNCHANGED <<xvars, CHDMAN_PATH, system_var, status_var, progress_bar, percent_var,
                 output_tail_var, afterQ, uiWrites, popens, children, logWritten, warnings>>

\* select_batch(): the folder dialog answered folder, <<>> when cancelled
select_batch(w, folder) ==
  /\ thr[w].pc = "idle"
  /\ \A v \in Workers : v < w => thr[v].pc # "idle"
  /\ LET exts == build_filetypes(system_var)
         files == Concat([i \in 1..Len(exts) |-> Glob(folder, exts[i])])
     IN IF folder = <<>>
        THEN UNCHANGED <<thr, warnings, uiWrites>>
        ELSE IF files = <<>>
        THEN /\ warnings' = TRUE
             /\ uiWrites' = uiWrites \cup {<<"messagebox", "main">>}
             /\ UNCHANGED thr
        ELSE /\ StartThread(w, "batch", files, system_var, <<>>)
             /\ UNCHANGED <<warnings, uiWrites>>
  /\ UNCHANGED <<xvars, CHDMAN_PATH, system_var, status_var, progress_bar, percent_var,
                 output_tail_var, afterQ, popens, children, logWritten>>

DISC_EXTS == {EXT_CUE, EXT_GDI, EXT_ISO, EXT_CDI}

\* handle_drop(event) with event.data holding paths
handle_drop(w, paths) ==
  /\ thr[w].pc = "idle"
  /\ \A v \in Workers : v < w => thr[v].pc # "idle"
  /\ LET found == SelectSeq(paths, LAMBDA p :
                    IsFile(p) /\ \E e \in DISC_EXTS : EndsWith(Lower(p), e))
         folders == SelectSeq(paths, LAMBDA p :
                    ~(IsFile(p) /\ \E e \in DISC_EXTS : EndsWith(Lower(p), e)) /\ IsDir(p))
         files == found \o Concat([i \in 1..Len(folders) |->
                    Glob(folders[i], EXT_CUE) \o Glob(folders[i], EXT_GDI)
                      \o Glob(folders[i], EXT_ISO) \o Glob(folders[i], EXT_CDI)])
     IN IF files # <<>>
        THEN StartThread(w, "batch", files, system_var, <<>>)
        ELSE UNCHANGED thr
  /\ UNCHANGED <<xvars, CHDMAN_PATH, system_var, status_var, progress_bar, percent_var,
                 output_tail_var, afterQ, uiWrites, popens, children, logWritten, warnings>>

\* what the main thread leaves alone while a worker runs
WorkerFrame ==
  UNCHANGED <<xvars, CHDMAN_PATH, system_var, status_var, progress_bar,
              output_tail_var, warnings>>

\* the check for the tool left out
ToolMissingIgnored == FALSE

\* run_chdman line 73: if not CHDMAN_PATH
ToolMissing == CHDMAN_PATH = ""

\* convert_files: output_file = os.path.splitext(f)[0] + ".chd"
BatchOutput(f) == SplitextRoot(f) \o EXT_CHD

\* a failed file ends the batch
AfterRunStopsOnFailure(t, ok, outcome) ==
  [t EXCEPT !.ok = ok,
            !.success = IF t.kind = "batch" /\ ok THEN @ + 1 ELSE @,
            !.fail = IF t.kind = "batch" /\ ~ok THEN @ + 1 ELSE @,
            !.outcomes = Append(@, outcome),
            !.idx = IF t.idx < Len(t.files) /\ ok THEN @ + 1 ELSE @,
            !.pc = IF t.idx < Len(t.files) /\ ok THEN "start" ELSE "finish"]

\* run_chdman has returned ok for the current file: count it and go on to the
\* next file, or leave the loop
AfterRun(t, ok, outcome) ==
  [t EXCEPT !.ok = ok,
            !.success = IF t.kind = "batch" /\ ok THEN @ + 1 ELSE @,
            !.fail = IF t.kind = "batch" /\ ~ok THEN @ + 1 ELSE @,
            !.outcomes = Append(@, outcome),
            !.idx = IF t.idx < Len(t.files) THEN @ + 1 ELSE @,
            !.pc = IF t.idx < Len(t.files) THEN "start" ELSE "finish"]

\* convert_files lines 164-169, single_convert lines 192-195, and run_chdman
\* up to the loop (lines 73-96): the status line, the progress reset, the
\* subcommand, then the error box when there is no tool, or Popen, which starts
\* the child or raises; log_ok is whether chd_output.log could be opened
FileStart(w, started, log_ok) ==
  LET t == thr[w]
      f == t.files[t.idx]
      out == IF t.kind = "batch" THEN BatchOutput(f) ELSE t.save_file
      t1 == [t EXCEPT !.job = [input |-> f, output |-> out,
                               subcommand |-> choose_subcommand(t.system, f),
                               system |-> t.system],
                      !.proc = "none", !.rc = 0, !.logf = FALSE, !.buf = <<>>,
                      !.reads = 0, !.lastCb = -1, !.forced = FALSE,
                      !.attempted = Append(@, f)]
  IN /\ t.pc = "start"
     /\ Len(afterQ) + 2 <= MaxQueue
     /\ afterQ' = set_progress(update_status(afterQ, ConvertingMsg(t.idx, Len(t.files), f)), 0)
     /\ IF ToolMissing
        THEN /\ thr' = [thr EXCEPT ![w] = [t1 EXCEPT !.pc = "errdlg"]]
             /\ uiWrites' = uiWrites \cup {<<"messagebox", "worker">>}
             /\ UNCHANGED <<popens, children>>
        ELSE IF started
        THEN /\ thr' = [thr EXCEPT ![w] = [t1 EXCEPT !.pc = "read", !.proc = "running",
                                                     !.logf = log_ok]]
             /\ popens' = popens + 1
             /\ children' = children \cup {<<w, t.idx>>}
             /\ UNCHANGED uiWrites
        ELSE /\ thr' = [thr EXCEPT ![w] = AfterRun(t1, FALSE, "nolaunch")]
             /\ UNCHANGED <<popens, children, uiWrites>>
     /\ UNCHANGED <<percent_var, logWritten>>
     /\ WorkerFrame

\* the user closes the error box: run_chdman returns False (line 75)
DismissError(w) ==
  /\ thr[w].pc = "errdlg"
  /\ thr' = [thr EXCEPT ![w] = AfterRun(thr[w], FALSE, "notool")]
  /\ UNCHANGED <<afterQ, percent_var, uiWrites, popens, children, logWritten>>
  /\ WorkerFrame

\* run_chdman lines 98-125 for a non-empty chunk
ReadChunk(w, chunk) ==
  LET t == thr[w]
      b == Append2(t.buf, chunk)
      cbs == Callbacks(b)
  IN /\ t.pc = "read"
     /\ t.reads < ReadLimit
     /\ Len(afterQ) + 1 + Len(cbs) <= MaxQueue
     /\ afterQ' = set_progress_all(show_tail(afterQ, TailOf(b)), cbs)
     /\ logWritten' = (logWritten \/ t.logf)
     /\ thr' = [thr EXCEPT ![w] =
          [t EXCEPT !.buf = Truncate(b), !.reads = @ + 1,
                    !.lastCb = IF cbs = <<>> THEN @ ELSE Clamp(cbs[Len(cbs)])]]
     /\ UNCHANGED <<percent_var, uiWrites, popens, children>>
     /\ WorkerFrame

\* the read, or anything else in the try block, raises: return False (line 137)
ReadRaises(w) ==
  /\ thr[w].pc = "read"
  /\ thr' = [thr EXCEPT ![w] = AfterRun(thr[w], FALSE, "raised")]
  /\ UNCHANGED <<afterQ, percent_var, uiWrites, popens, children, logWritten>>
  /\ WorkerFrame

\* the last callback never forced
ForceFinalNever(rc) == FALSE

\* whether run_chdman forces the last callback for exit code rc (line 133)
ForceFinal(rc) == rc = 0

\* run_chdman lines 99-100 and 126-135: the stream ends and the child exits
\* with code rc
WaitExit(w, rc) ==
  LET t == thr[w] IN
  /\ t.pc = "read"
  /\ Len(afterQ) + 1 <= MaxQueue
  /\ afterQ' = IF ForceFinal(rc) THEN set_progress(afterQ, 100 * Scale) ELSE afterQ
  /\ thr' = [thr EXCEPT ![w] =
       AfterRun([t EXCEPT !.proc = "exited", !.rc = rc,
                          !.forced = ForceFinal(rc),
                          !.lastCb = IF ForceFinal(rc) THEN Clamp(100 * Scale) ELSE @],
                rc = 0, IF rc = 0 THEN "rc0" ELSE "rc1")]
  /\ children' = children \ {<<w, t.idx>>}
  /\ UNCHANGED <<percent_var, uiWrites, popens, logWritten>>
  /\ WorkerFrame

\* the status left as it is when an operation ends
EndUpdatesNoIdle(q) == set_progress(q, 0)

\* the two updates that end an operation (lines 173-174, 196-197)
EndUpdates(q) == set_progress(update_status(q, IDLE), 0)

\* run_chdman's locals are gone by then
Finish(w) ==
  /\ thr[w].pc = "finish"
  /\ Len(afterQ) + 2 <= MaxQueue
  /\ afterQ' = EndUpdates(afterQ)
  /\ thr' = [thr EXCEPT ![w] =
       [@ EXCEPT !.pc = "clear", !.job = NoProc, !.proc = "none", !.rc = 0,
                 !.logf = FALSE, !.buf = <<>>, !.reads = 0, !.lastCb = -1,
                 !.forced = FALSE]]
  /\ UNCHANGED <<percent_var, uiWrites, popens, children, logWritten>>
  /\ WorkerFrame

\* the thread that runs percent_var.set("") at lines 175 and 198
ClearThread == "worker"

\* lines 175-176, 198-199: percent_var.set("") and the summary box, both called
\* by the worker itself
ClearAndSummary(w) ==
  LET t == thr[w] IN
  /\ t.pc = "clear"
  /\ percent_var' = <<>>
  /\ uiWrites' = uiWrites \cup {<<"percent_var", ClearThread>>, <<"messagebox", "worker">>}
  /\ thr' = [thr EXCEPT ![w] =
       [t EXCEPT !.pc = "summary",
                 !.summary =
                   [shown |-> t.summary.shown + 1,
                    converted |-> IF t.kind = "batch" THEN t.success
                                  ELSE IF t.ok THEN 1 ELSE 0,
                    failed |-> IF t.kind = "batch" THEN t.fail
                               ELSE IF t.ok THEN 0 ELSE 1]]]
  /\ UNCHANGED <<afterQ, popens, children, logWritten>>
  /\ WorkerFrame

\* the user closes the summary box and the thread ends; of its locals only the
\* last result is kept
DismissSummary(w) ==
  /\ thr[w].pc = "summary"
  /\ thr' = [thr EXCEPT ![w] = [Fresh EXCEPT !.pc = "done", !.ok = thr[w].ok]]
  /\ UNCHANGED <<afterQ, percent_var, uiWrites, popens, children, logWritten>>
  /\ WorkerFrame

\* the main loop runs the oldest callback root.after queued
MainApply ==
  /\ afterQ # <<>>
  /\ LET c == Head(afterQ) IN
       /\ status_var' = IF c.kind = "status" THEN c.text ELSE status_var
       /\ output_tail_var' = IF c.kind = "tail" THEN c.text ELSE output_tail_var
       /\ progress_bar' = IF c.kind = "apply" THEN BarValue(c.pct) ELSE progress_bar
       /\ percent_var' = IF c.kind = "apply" THEN FormatPercent(c.pct) ELSE percent_var
       /\ uiWrites' = uiWrites \cup
            (CASE c.kind = "status" -> {<<"status_var", "main">>}
               [] c.kind = "tail" -> {<<"output_tail_var", "main">>}
               [] c.kind = "apply" -> {<<"progress_bar", "main">>, <<"percent_var", "main">>})
  /\ afterQ' = Tail(afterQ)
  /\ UNCHANGED <<xvars, CHDMAN_PATH, system_var, thr, popens, children, logWritten, warnings>>

UserStep ==
  \/ \E w \in Workers : \E cue \in CueChoices :
       \E save \in SaveChoices(cue) : select_single(w, cue, save)
  \/ \E w \in Workers : \E folder \in FolderChoices : select_batch(w, folder)
  \/ \E w \in Workers : \E paths \in DropChoices : handle_drop(w, paths)

WorkerStep(w) ==
  \/ \E started \in LaunchChoices : \E log_ok \in LaunchChoices :
       FileStart(w, started, log_ok)
  \/ \E chunk \in ChunkChoices : ReadChunk(w, chunk)
  \/ ReadRaises(w)
  \/ \E rc \in {0, 1} : WaitExit(w, rc)
  \/ Finish(w)
  \/ ClearAndSummary(w)

DialogStep(w) == DismissError(w) \/ DismissSummary(w)

Next ==
  \/ UserStep
  \/ \E w \in Workers : WorkerStep(w)
  \/ \E w \in Workers : DialogStep(w)
  \/ MainApply

Spec == Init /\ [][Next]_vars

\* Several operations: the window does not stop the user from starting one
\* while another runs.
InitOverlap ==
  /\ CHDMAN_PATH \in {"chdman", ""}
  /\ system_var = SYSTEMS[2]
  /\ status_var = IDLE
  /\ progress_bar = 0
  /\ percent_var = <<>>
  /\ output_tail_var = <<>>
  /\ afterQ = <<>>
  /\ thr = [w \in 1..MaxOps |-> Fresh]
  /\ uiWrites = {}
  /\ popens = 0
  /\ children = {}
  /\ logWritten = FALSE
  /\ warnings = FALSE
  /\ stream = <<>> /\ fed = 0 /\ buffer = <<>> /\ reported = {}
  /\ cuts = {} /\ split = FALSE /\ eof = FALSE

\* the steps that do not wait for new input: a thread goes on once the child it
\* waits for has ended its output and exited, the user closes a box that is
\* open, the main loop runs what is queued
Progress ==
  \/ \E w \in Workers : \E started \in LaunchChoices : \E log_ok \in LaunchChoices :
       FileStart(w, started, log_ok)
  \/ \E w \in Workers : \E rc \in {0, 1} : WaitExit(w, rc)
  \/ \E w \in Workers : Finish(w)
  \/ \E w \in Workers : ClearAndSummary(w)
  \/ \E w \in Workers : DialogStep(w)
  \/ MainApply

\* While one of these steps can be taken, one of them eventually is.
Fairness == WF_vars(Progress)

LiveSpec == InitOverlap /\ [][Next]_vars /\ Fairness

\* ----------------------------------------------------------------- the claims
\* the threads that have run a child to its exit for their current file
Exited == { w \in Workers : thr[w].proc = "exited" }

\* C1: when the child has exited with code 0 the last value handed to the
\* progress callback in that run is exactly 100.0, whatever was parsed before;
\* when it exits with another code no 100.0 is forced.
C1_FinalIs100 ==
  \A w \in Exited :
    /\ thr[w].rc = 0 => thr[w].lastCb = 100 * Scale
    /\ thr[w].rc # 0 => ~thr[w].forced

\* a run that parsed 50 from "50%" and then ended with code 0
C1_Witness ==
  \E w \in Exited :
    thr[w].rc = 0 /\ thr[w].buf = <<"5", "0", "%">> /\ thr[w].lastCb = 100 * Scale

\* the path ends with ".iso" in any mix of upper and lower case
IsoExtension(path) ==
  LET n == Len(path) IN
  /\ n >= 4
  /\ path[n - 3] = "."
  /\ path[n - 2] \in {"i", "I"}
  /\ path[n - 1] \in {"s", "S"}
  /\ path[n] \in {"o", "O"}

\* the threads that have launched a child for their current file
Launched == { w \in Workers : thr[w].proc # "none" }

\* C3: every child is launched with createdvd exactly when the profile is
\* PlayStation 2 and its own input file has the .iso extension in any case, and
\* with createcd otherwise.
C3_Subcommand ==
  \A w \in Launched :
    LET j == thr[w].job IN
    /\ j.input = thr[w].attempted[Len(thr[w].attempted)]
    /\ j.subcommand \in {"createdvd", "createcd"}
    /\ j.subcommand = "createdvd" <=> (j.system = SYSTEMS[2] /\ IsoExtension(j.input))

\* a PlayStation 2 child running createdvd on an upper-case .ISO file
C3_Witness ==
  \E w \in Launched :
    /\ thr[w].job.subcommand = "createdvd"
    /\ thr[w].job.input = FileB
    /\ thr[w].proc = "running"

\* how many invocations ended with exit code 0
Succeeded(t) == Cardinality({ i \in 1..Len(t.outcomes) : t.outcomes[i] = "rc0" })

\* C4: a batch attempts its files once each in list order, success + fail is
\* the number of finished attempts, a failure does not stop the batch, and one
\* summary is shown, after the last file, with Converted = K and Failed = N - K.
C4_BatchSummary ==
  \A w \in Workers :
    LET t == thr[w] IN
    t.kind = "batch" =>
      /\ t.attempted = SubSeq(t.files, 1, Len(t.attempted))
      /\ t.success + t.fail = Len(t.outcomes)
      /\ Len(t.attempted) - Len(t.outcomes) \in {0, 1}
      /\ t.summary.shown = (IF t.pc = "summary" THEN 1 ELSE 0)
      /\ t.summary.shown = 1 =>
           /\ t.attempted = t.files
           /\ Len(t.outcomes) = Len(t.files)
           /\ t.summary.converted = Succeeded(t)
           /\ t.summary.failed = Len(t.files) - Succeeded(t)

\* a batch of three files at its summary, whose first file failed and a later
\* one succeeded
C4_Witness ==
  \E w \in Workers :
    /\ thr[w].kind = "batch" /\ thr[w].pc = "summary" /\ Len(thr[w].files) = 3
    /\ thr[w].outcomes[1] = "rc1"
    /\ thr[w].summary.converted = 1 /\ thr[w].summary.failed = 2

\* C5: without the tool no child is ever started, no progress callback fires,
\* nothing is written to the log, and every invocation fails after its error
\* box.
C5_NoToolNoLaunch ==
  CHDMAN_PATH = "" =>
    /\ popens = 0 /\ children = {} /\ ~logWritten
    /\ \A w \in Workers :
         /\ thr[w].proc = "none" /\ thr[w].lastCb = -1 /\ ~thr[w].forced
         /\ thr[w].success = 0 /\ ~thr[w].ok
         /\ \A i \in 1..Len(thr[w].outcomes) : thr[w].outcomes[i] = "notool"
         /\ Len(thr[w].attempted) > Len(thr[w].outcomes) => thr[w].pc = "errdlg"

\* a batch that went through all its files without the tool
C5_Witness ==
  /\ CHDMAN_PATH = ""
  /\ \E w \in Workers :
       thr[w].kind = "batch" /\ thr[w].pc = "summary" /\ Len(thr[w].outcomes) >= 2

\* C6: every write of UI state is made by the main thread.
C6_OnlyMainWrites == \A x \in uiWrites : x[2] = "main"

\* the threads of operations in progress
Active == { w \in Workers : thr[w].pc \notin {"idle", "done"} }

\* the children whose output a thread is still reading
Running == { c \in children : thr[c[1]].pc = "read" /\ thr[c[1]].idx = c[2] }

\* C7: at most one conversion thread is active and at most one child is
\* running at any time.
C7_OneAtATime == Cardinality(Active) <= 1 /\ Cardinality(Running) <= 1

C9_OutputDiffers == \A w \in Launched : thr[w].job.output # thr[w].job.input

\* C10: once the operations have ended and the queued updates have run, the
\* percent label is empty.
C10_LabelCleared ==
  (/\ afterQ = <<>>
   /\ Active = {}
   /\ \E w \in Workers : thr[w].pc = "done") => percent_var = <<>>

\* ------------------------------------------------ the extractor on one stream
\* The child's whole output is `stream`; `fed` characters of it have been read.
Sigma == {"1", "0", ".", "%", " "}

Bodies == [1..BodyLen -> Sigma]

Streams ==
  { Fill(pre) \o b \o Fill(post) :
      pre \in {0, PrePad}, post \in {0, PostPad}, b \in Bodies }

\* Where a read may end: next to a character of the body, within the last
\* BodyLen characters of the stream (so that a truncation can fall anywhere in
\* the body), at the end, or in the middle of the leading filler (which holds
\* no token).
SplitPoint(s, pos) ==
  \/ pos = Len(s)
  \/ pos + BodyLen >= Len(s)
  \/ \E i \in {pos, pos + 1} \cap (1..Len(s)) : s[i] \in Sigma
  \/ pos = PrePad \div 2

\* the matches of the whole stream
StreamTokens == LET ms == FindIter(stream) IN { ms[i] : i \in 1..Len(ms) }

ExtInit ==
  /\ stream \in Streams
  /\ fed = 0
  /\ buffer = <<>>
  /\ reported = {}
  /\ cuts = {}
  /\ split = FALSE
  /\ eof = FALSE
  /\ CHDMAN_PATH = "chdman"
  /\ system_var = <<>> /\ status_var = <<>> /\ progress_bar = 0 /\ percent_var = <<>>
  /\ output_tail_var = <<>> /\ afterQ = <<>> /\ thr = <<>> /\ uiWrites = {}
  /\ popens = 0 /\ children = {} /\ logWritten = FALSE /\ warnings = FALSE

\* chunk = proc.stdout.read(64) with a non-empty chunk, and the loop's body
ExtRead(n) ==
  /\ ~eof
  /\ fed + n <= Len(stream)
  /\ SplitPoint(stream, fed + n)
  /\ LET chunk == SubSeq(stream, fed + 1, fed + n)
         buf == Append2(buffer, chunk)
         cbs == Callbacks(buf)
     IN /\ fed' = fed + n
        /\ reported' = reported \cup { cbs[i] : i \in 1..Len(cbs) }
        /\ buffer' = Truncate(buf)
        /\ cuts' = IF Dropped(buf) > 0 THEN cuts \cup {fed + n - Len(Truncate(buf))} ELSE cuts
        /\ split' = (split \/ \E m \in StreamTokens :
                                 InRange(m.val) /\ m.start <= fed + n /\ fed + n < m.end)
  /\ UNCHANGED <<stream, eof, avars>>

\* if not chunk: break
ExtEOF ==
  /\ ~eof
  /\ fed = Len(stream)
  /\ eof' = TRUE
  /\ UNCHANGED <<stream, fed, buffer, reported, cuts, split, avars>>

ExtNext == (\E n \in 1..ReadSize : ExtRead(n)) \/ ExtEOF

ExtractSpec == ExtInit /\ [][ExtNext]_vars

\* a token straddles a truncation: it begins at or before the last dropped
\* character and ends after it
Straddled == \E c \in cuts : \E m \in StreamTokens : m.start <= c /\ c < m.end

\* C2: whatever the split into chunks, the percentages reported so far are
\* exactly the in-range tokens of the stream that have been read whole, unless
\* a token straddles a truncation of the buffer.
C2_ChunkIndependent ==
  ~Straddled =>
    reported = { m.val : m \in { t \in StreamTokens : t.end <= fed /\ InRange(t.val) } }

\* a run that truncated the buffer and in which a read ended inside a token
C2_Witness ==
  /\ eof /\ cuts # {} /\ ~Straddled
  /\ split /\ reported # {}

====
